---- MODULE Spec2Model ----
(***************************************************************************)
(* Model of src/src/index.ts: the issue-body codec (parseIssueBody,        *)
(* printIssueBody, parseMetadata, printMetadata), the canonical ID         *)
(* allocator (findGaps and the assignment loop of State.initialise) and    *)
(* the cache-or-populate synchronizer (State.getIssuesforRepo, fanned out  *)
(* by State.getIssues).                                                    *)
(*                                                                         *)
(* Text is a sequence of tokens.  Every token stands for a fixed piece of  *)
(* text: "N" is "\r\n", "D" is "---", "a" is a run of ordinary prose, the  *)
(* digits are themselves, and the markup tokens are the tags they spell.   *)
(* No token is a proper part of the separator "\r\n---\r\n" other than "N" *)
(* and "D", so an occurrence of the separator in the text is an occurrence *)
(* of <<"N", "D", "N">> in the token sequence and conversely.              *)
(***************************************************************************)
EXTENDS Integers, Sequences, FiniteSets, TLC

VARIABLES
    tracker,      \* remote tracker: repository -> raw issues (number, body text, pull_request)
    cache,        \* the "issues" collection: sequence of documents in natural (insertion) order
    indexExists,  \* whether the unique index on (owner, repo, issueId) exists
    installs,     \* listInstallations / listRepos: sequence of installations, each a sequence of repositories
    listed,       \* the installations whose listRepos has returned (their calls are started)
    calls,        \* one record per getIssuesforRepo call of the current getIssues fan-out
    opc,          \* position of State.initialise / State.getIssues
    synced,       \* history: repositories of which a getIssuesforRepo call has returned normally
    contexts,     \* the aggregated IssueContext list held by initialise
    knownIds,     \* initialise's knownIds array
    gaps,         \* initialise's gaps array
    nextId,       \* initialise's nextId counter
    loopIdx,      \* position of the for..of loop over contexts (1-based)
    assignLog,    \* history: the assignments made by the loop, in order
    gapArray,     \* findGaps under test: argument array
    gapMax,       \* findGaps under test: argument maxGaps
    gapResult,    \* findGaps under test: returned array
    gapPc,        \* findGaps under test: "call" before, "returned" after
    codecBody,    \* codec under test: the IssueBody handed to printIssueBody
    codecPrinted, \* codec under test: result of printMetadata and printIssueBody
    codecParsed,  \* codec under test: result of parseIssueBody on the printed text
    codecPc,      \* codec under test: "print", "parse", "done"
    parseInput,   \* parseIssueBody under test: the argument, a text or null
    parseOutput,  \* parseIssueBody under test: the IssueBody returned
    parsePc       \* parseIssueBody under test: "call" before, "returned" or "threw" after

vars == <<tracker, cache, indexExists, installs, listed, calls, opc, synced,
          contexts, knownIds, gaps, nextId, loopIdx, assignLog,
          gapArray, gapMax, gapResult, gapPc,
          codecBody, codecPrinted, codecParsed, codecPc,
          parseInput, parseOutput, parsePc>>

syncVars  == <<tracker, cache, indexExists, installs, listed, calls, synced>>
allocVars == <<opc, contexts, knownIds, gaps, nextId, loopIdx, assignLog>>
gapVars   == <<gapArray, gapMax, gapResult, gapPc>>
codecVars == <<codecBody, codecPrinted, codecParsed, codecPc>>
parseVars == <<parseInput, parseOutput, parsePc>>

----------------------------------------------------------------------------
(* Bounds of the model. *)

MaxCalls == 2        \* most repositories over all installations together
MaxContexts == 3     \* longest aggregated issue list handed to the allocator on its own
MaxKnownId == 10     \* largest canonical ID in such a list
MaxUsedId == 5       \* largest value in an array handed to findGaps on its own
MaxArrayLen == 4     \* longest array handed to findGaps on its own
MaxGapsArg == 10     \* largest maxGaps handed to findGaps on its own
MaxSections == 2     \* most content sections of an IssueBody handed to the codec
MaxBodyLen == 3      \* most tokens in all content sections of such an IssueBody together
MaxCanonicalId == 11 \* largest canonical ID of an IssueBody handed to the codec
MaxLis == 2          \* most li elements in a text handed to parseIssueBody on its own
MaxAttrLen == 2      \* most tokens in all data-canonical-id values of such a text together

----------------------------------------------------------------------------
(* Generic sequence helpers. *)

RECURSIVE SeqsUpTo(_, _)
SeqsUpTo(S, n) ==
    IF n = 0 THEN {<<>>}
    ELSE LET shorter == SeqsUpTo(S, n - 1)
         IN shorter \cup {Append(s, x) : s \in {t \in shorter : Len(t) = n - 1}, x \in S}

Range(s) == {s[i] : i \in 1..Len(s)}

IsAscending(s) == \A i \in 1..(Len(s) - 1) : s[i] <= s[i + 1]

IsStrictlyAscending(s) == \A i \in 1..(Len(s) - 1) : s[i] < s[i + 1]

----------------------------------------------------------------------------
(* Numbers and their decimal text. *)

\* canonicalId: number | null.  Null stands for null, NaN for parseInt's NaN;
\* neither is a value parseMetadata lets through as a number.
Null == -1
NaN == -2

\* The number value Infinity, above every other number; parseInt returns it for
\* a run of digits whose value is beyond the largest finite number value.
Infinity == 2147483647

DigitTokens == <<"0", "1", "2", "3", "4", "5", "6", "7", "8", "9">>

DigitSet == Range(DigitTokens)

DigitValue(tok) == (CHOOSE i \in 1..10 : DigitTokens[i] = tok) - 1

\* A run of 309 nines: digits whose value is beyond the largest finite number value.
HugeDigits == "9{309}"

isDigit(tok) == tok \in DigitSet \/ tok = HugeDigits

\* Number.prototype.toString for a non-negative integer.
RECURSIVE toString(_)
toString(n) ==
    IF n < 10 THEN <<DigitTokens[n + 1]>>
    ELSE Append(toString(n \div 10), DigitTokens[(n % 10) + 1])

\* parseInt: the longest prefix of decimal digits, NaN when there is none; the
\* value of the digits is rounded to a number value, Infinity when it is too large.
RECURSIVE parseDigits(_, _, _)
parseDigits(s, i, acc) ==
    IF i > Len(s) \/ ~isDigit(s[i]) THEN acc
    ELSE IF acc = Infinity \/ s[i] = HugeDigits THEN parseDigits(s, i + 1, Infinity)
    ELSE parseDigits(s, i + 1, acc * 10 + DigitValue(s[i]))

parseInt(s) ==
    IF Len(s) >= 1 /\ s[1] = "-"
    THEN IF Len(s) >= 2 /\ isDigit(s[2]) THEN 0 - parseDigits(s, 2, 0) ELSE NaN
    ELSE IF Len(s) >= 1 /\ isDigit(s[1]) THEN parseDigits(s, 1, 0) ELSE NaN

----------------------------------------------------------------------------
(* findGaps, index.ts lines 186-206. *)

\* while (array.length !== 0 && array[0] < 1) array.shift();
RECURSIVE dropLeading(_)
dropLeading(array) ==
    IF Len(array) # 0 /\ array[1] < 1 THEN dropLeading(Tail(array)) ELSE array

\* i < array[array.length - 1]; comparing with undefined (empty array) is false.
forCond(i, array) == Len(array) # 0 /\ i < array[Len(array)]

\* i == array[arrayIndex], arrayIndex counted from 0; undefined past the end.
matchesUsed(i, array, arrayIndex) ==
    arrayIndex + 1 <= Len(array) /\ i = array[arrayIndex + 1]

\* Mutant of breakCond: the break tests "more than maxGaps" instead of "equal".
breakCond_greater(gapList, maxGaps) == Len(gapList) > maxGaps

\* if (gaps.length == maxGaps) break;
breakCond(gapList, maxGaps) == Len(gapList) = maxGaps

RECURSIVE findGapsLoop(_, _, _, _, _)
findGapsLoop(array, maxGaps, i, arrayIndex, gapList) ==
    IF ~forCond(i, array) THEN gapList
    ELSE LET hit == matchesUsed(i, array, arrayIndex)
             nextIndex == IF hit THEN arrayIndex + 1 ELSE arrayIndex
             nextGaps == IF hit THEN gapList ELSE Append(gapList, i)
         IN IF breakCond(nextGaps, maxGaps) THEN nextGaps
            ELSE findGapsLoop(array, maxGaps, i + 1, nextIndex, nextGaps)

findGaps(array, maxGaps) == findGapsLoop(dropLeading(array), maxGaps, 1, 0, <<>>)

----------------------------------------------------------------------------
(* Text helpers: String.prototype.split and Array.prototype.join. *)

occursAt(text, sep, p) ==
    /\ p + Len(sep) - 1 <= Len(text)
    /\ \A k \in 1..Len(sep) : text[p + k - 1] = sep[k]

\* Position of the leftmost occurrence of sep in text, 0 when there is none.
indexOf(text, sep) ==
    LET hits == {p \in 1..Len(text) : occursAt(text, sep, p)}
    IN IF hits = {} THEN 0 ELSE CHOOSE p \in hits : \A q \in hits : p <= q

RECURSIVE split(_, _)
split(text, sep) ==
    LET p == indexOf(text, sep)
    IN IF p = 0 THEN <<text>>
       ELSE <<SubSeq(text, 1, p - 1)>> \o split(SubSeq(text, p + Len(sep), Len(text)), sep)

RECURSIVE join(_, _)
join(sections, sep) ==
    IF Len(sections) = 0 THEN <<>>
    ELSE IF Len(sections) = 1 THEN sections[1]
    ELSE sections[1] \o sep \o join(Tail(sections), sep)

----------------------------------------------------------------------------
(* The metadata microformat and the body codec, index.ts lines 10-23 and   *)
(* 208-287.                                                                *)

\* A value that may be JavaScript null (a metadata record, a string).
None == [isNull |-> TRUE]

Some(v) == [isNull |-> FALSE, value |-> v]

newMetadata == [canonicalId |-> Null]

DO_NOT_EDIT == <<"<!-- DO NOT EDIT -->", "N">>

SEPARATOR == <<"N", "D", "N">>

LI_OPEN == "<li data-canonical-id=\""

LI_CLOSE == "\">Canonical link: <a></a></li>"

\* An li element without a data attribute.
LI_PLAIN == "<li>Canonical link: <a></a></li>"

\* value.toString() of a number.
numberToString(v) ==
    IF v = NaN THEN <<"NaN">>
    ELSE IF v = Infinity THEN <<"Infinity">>
    ELSE IF v = 0 - Infinity THEN <<"-Infinity">>
    ELSE IF v < 0 THEN <<"-">> \o toString(0 - v)
    ELSE toString(v)

\* The closing tag of an element: pops the open elements through the nearest
\* one of that name, and is ignored when none is open.
closeElement(open, name) ==
    LET at == {k \in 1..Len(open) : open[k] = name}
    IN IF at = {} THEN open
       ELSE SubSeq(open, 1, (CHOOSE k \in at : \A l \in at : l <= k) - 1)

indexOfTokenFrom(html, tok, from) ==
    LET hits == {p \in from..Len(html) : html[p] = tok}
    IN IF hits = {} THEN 0 ELSE CHOOSE p \in hits : \A q \in hits : p <= q

\* $("details > ul > li"): the li elements whose parent is a ul whose parent is
\* a details element, in document order; each is its data-canonical-id value,
\* or null when it has no such attribute.
RECURSIVE selectDetailsUlLi(_, _, _, _)
selectDetailsUlLi(html, i, open, found) ==
    IF i > Len(html) THEN found
    ELSE LET tok == html[i]
         IN CASE tok = "<details>" -> selectDetailsUlLi(html, i + 1, Append(open, "details"), found)
              [] tok = "<ul>" -> selectDetailsUlLi(html, i + 1, Append(open, "ul"), found)
              [] tok = "</details>" -> selectDetailsUlLi(html, i + 1, closeElement(open, "details"), found)
              [] tok = "</ul>" -> selectDetailsUlLi(html, i + 1, closeElement(open, "ul"), found)
              [] tok = LI_OPEN ->
                    LET j == indexOfTokenFrom(html, LI_CLOSE, i + 1)
                        n == Len(open)
                        selected == n >= 2 /\ open[n] = "ul" /\ open[n - 1] = "details"
                    IN IF j = 0 THEN found  \* the attribute's quote never closes: no element
                       ELSE selectDetailsUlLi(html, j + 1, open,
                                IF selected THEN Append(found, Some(SubSeq(html, i + 1, j - 1)))
                                ELSE found)
              [] tok = LI_PLAIN ->
                    LET n == Len(open)
                        selected == n >= 2 /\ open[n] = "ul" /\ open[n - 1] = "details"
                    IN selectDetailsUlLi(html, i + 1, open,
                                         IF selected THEN Append(found, None) ELSE found)
              [] OTHER -> selectDetailsUlLi(html, i + 1, open, found)

\* details.each(...): every li that has the attribute sets canonicalId =
\* parseInt(data.canonicalId).  data() turns an attribute text into a number only
\* when the number's string is that text again, and parseInt takes the string of
\* its argument, so parseInt reads the attribute text.
RECURSIVE eachLi(_, _)
eachLi(details, metadata) ==
    IF Len(details) = 0 THEN metadata
    ELSE IF details[1].isNull THEN eachLi(Tail(details), metadata)
    ELSE eachLi(Tail(details), [metadata EXCEPT !.canonicalId = parseInt(details[1].value)])

\* Mutant of normaliseCanonicalId: the lower limit is off by one (<= 1 for < 1).
normaliseCanonicalId_offByOne(metadata) ==
    IF metadata.canonicalId # Null /\ (metadata.canonicalId = NaN \/ metadata.canonicalId <= 1)
    THEN [metadata EXCEPT !.canonicalId = Null]
    ELSE metadata

\* Invalid number => make it null.
normaliseCanonicalId(metadata) ==
    IF metadata.canonicalId # Null /\ (metadata.canonicalId = NaN \/ metadata.canonicalId < 1)
    THEN [metadata EXCEPT !.canonicalId = Null]
    ELSE metadata

parseMetadata(html) ==
    LET details == selectDetailsUlLi(html, 1, <<>>, <<>>)
    IN IF Len(details) = 0 THEN None
       ELSE Some(normaliseCanonicalId(eachLi(details, newMetadata)))

\* addField: one li per field whose value is not null.
addField(value) ==
    IF value # Null THEN <<LI_OPEN>> \o numberToString(value) \o <<LI_CLOSE>> ELSE <<>>

\* if (!metadata) return null;  an object, whatever its fields, is truthy.
metadataIsFalsy(metadata) == metadata.isNull

printMetadata(metadata) ==
    IF metadataIsFalsy(metadata) THEN None
    ELSE Some(<<"<details>", "<summary>Issue metadata</summary>", "<ul>">>
              \o addField(metadata.value.canonicalId)
              \o <<"</ul>", "</details>">>)

parseIssueBody(bodyText) ==
    LET sections == split(bodyText, SEPARATOR)
        last == sections[Len(sections)]
        metadata == IF Len(last) # 0 THEN parseMetadata(last) ELSE None
    IN IF ~metadata.isNull
       THEN [sections |-> SubSeq(sections, 1, Len(sections) - 1), metadata |-> metadata.value]
       ELSE [sections |-> sections, metadata |-> newMetadata]

printIssueBody(body) ==
    LET metadataSection == printMetadata(Some(body.metadata))
        sections == IF ~metadataSection.isNull /\ Len(metadataSection.value) # 0
                    THEN Append(body.sections, DO_NOT_EDIT \o metadataSection.value)
                    ELSE body.sections
    IN join(sections, SEPARATOR)

----------------------------------------------------------------------------
(* Values of the variables a specification does not use. *)

SyncIdle ==
    /\ tracker = <<>>
    /\ cache = <<>>
    /\ indexExists = FALSE
    /\ installs = <<>>
    /\ listed = {}
    /\ calls = <<>>
    /\ synced = {}

AllocIdle ==
    /\ opc = "idle"
    /\ contexts = <<>>
    /\ knownIds = <<>>
    /\ gaps = <<>>
    /\ nextId = 0
    /\ loopIdx = 0
    /\ assignLog = <<>>

GapIdle ==
    /\ gapArray = <<>>
    /\ gapMax = 0
    /\ gapResult = <<>>
    /\ gapPc = "idle"

CodecIdle ==
    /\ codecBody = [sections |-> <<>>, metadata |-> newMetadata]
    /\ codecPrinted = [metadata |-> None, text |-> <<>>]
    /\ codecParsed = [sections |-> <<>>, metadata |-> newMetadata]
    /\ codecPc = "idle"

ParseIdle ==
    /\ parseInput = None
    /\ parseOutput = [sections |-> <<>>, metadata |-> newMetadata]
    /\ parsePc = "idle"

----------------------------------------------------------------------------
(* findGaps on its own: every ascending array and every maxGaps within the *)
(* bounds.  gapArray keeps the array as it was passed.                     *)

GapArrays == {s \in SeqsUpTo(0..MaxUsedId, MaxArrayLen) : IsAscending(s)}

InitGaps ==
    /\ gapArray \in GapArrays
    /\ gapMax \in 0..MaxGapsArg
    /\ gapResult = <<>>
    /\ gapPc = "call"
    /\ SyncIdle /\ AllocIdle /\ CodecIdle /\ ParseIdle

CallFindGaps ==
    /\ gapPc = "call"
    /\ gapResult' = findGaps(gapArray, gapMax)
    /\ gapPc' = "returned"
    /\ UNCHANGED <<gapArray, gapMax, syncVars, allocVars, codecVars, parseVars>>

NextGaps == CallFindGaps

SpecGaps == InitGaps /\ [][NextGaps]_vars

----------------------------------------------------------------------------
(* The codec on its own: printIssueBody, then parseIssueBody of its result, *)
(* for every IssueBody within the bounds.                                   *)

ContentTokens == {"a", "N", "D"}

\* The lists of at most n content sections holding at most budget tokens together.
RECURSIVE SectionLists(_, _)
SectionLists(n, budget) ==
    IF n = 0 THEN {<<>>}
    ELSE {<<>>} \cup UNION {{<<s>> \o rest : rest \in SectionLists(n - 1, budget - Len(s))} :
                              s \in SeqsUpTo(ContentTokens, budget)}

InitCodec ==
    /\ codecBody \in [sections : SectionLists(MaxSections, MaxBodyLen),
                      metadata : [canonicalId : {Null} \cup (1..MaxCanonicalId)]]
    /\ codecPrinted = [metadata |-> None, text |-> <<>>]
    /\ codecParsed = [sections |-> <<>>, metadata |-> newMetadata]
    /\ codecPc = "print"
    /\ SyncIdle /\ AllocIdle /\ GapIdle /\ ParseIdle

CallPrintIssueBody ==
    /\ codecPc = "print"
    /\ codecPrinted' = [metadata |-> printMetadata(Some(codecBody.metadata)),
                        text |-> printIssueBody(codecBody)]
    /\ codecPc' = "parse"
    /\ UNCHANGED <<codecBody, codecParsed, syncVars, allocVars, gapVars, parseVars>>

CallParseIssueBody ==
    /\ codecPc = "parse"
    /\ codecParsed' = parseIssueBody(codecPrinted.text)
    /\ codecPc' = "done"
    /\ UNCHANGED <<codecBody, codecPrinted, syncVars, allocVars, gapVars, parseVars>>

NextCodec == CallPrintIssueBody \/ CallParseIssueBody

SpecCodec == InitCodec /\ [][NextCodec]_vars

----------------------------------------------------------------------------
(* Claims about findGaps (checked under SpecGaps). *)

\* C3: for every ascending array and every maxGaps = k >= 0, the array findGaps
\* returns has at most k elements.
C3_GapBound == gapPc = "returned" => Len(gapResult) <= gapMax

Unused(array) ==
    IF Len(array) = 0 THEN {}
    ELSE {n \in 1..(array[Len(array)] - 1) : n \notin Range(array)}

Min(a, b) == IF a <= b THEN a ELSE b

\* result is, in ascending order, the min(k, number of unused) smallest unused integers.
IsFirstUnused(result, array, k) ==
    /\ Len(result) = Min(k, Cardinality(Unused(array)))
    /\ IsStrictlyAscending(result)
    /\ Range(result) \subseteq Unused(array)
    /\ \A u \in Unused(array) \ Range(result) : \A r \in Range(result) : r < u

\* C4: for every strictly ascending array of positive integers with maximum m and
\* every maxGaps k >= 1, findGaps returns in ascending order exactly the first
\* min(k, number of unused) integers of 1..m-1 that are not in the array, and the
\* empty list for the empty array.
C4_FindGapsReference ==
    (/\ gapPc = "returned"
     /\ IsStrictlyAscending(gapArray)
     /\ \A i \in 1..Len(gapArray) : gapArray[i] >= 1
     /\ gapMax >= 1)
    => IsFirstUnused(gapResult, gapArray, gapMax)

\* findGaps([5], 3) = [1, 2, 3]: four integers are unused and the first three are returned.
C4_Witness ==
    /\ gapPc = "returned"
    /\ gapArray = <<5>> /\ gapMax = 3
    /\ gapResult = <<1, 2, 3>>

\* C11: for every ascending array of positive integers that may contain duplicate
\* values, every value findGaps returns is a positive integer below the array's
\* maximum that does not occur in the array.
C11_OnlyUnusedWithDuplicates ==
    (/\ gapPc = "returned"
     /\ IsAscending(gapArray)
     /\ \A i \in 1..Len(gapArray) : gapArray[i] >= 1)
    => Range(gapResult) \subseteq Unused(gapArray)

----------------------------------------------------------------------------
(* Claims about the codec (checked under SpecCodec). *)

contains(text, sep) == indexOf(text, sep) # 0

endsWith(text, suffix) ==
    Len(text) >= Len(suffix) /\ SubSeq(text, Len(text) - Len(suffix) + 1, Len(text)) = suffix

\* No occurrence of the separator in the printed text starts inside this section:
\* it does not contain "\r\n---\r\n" and does not end with "\r\n---" (which the
\* separator that follows it would complete).
SeparatorFree(section) ==
    ~contains(section, SEPARATOR) /\ ~endsWith(section, <<"N", "D">>)

\* C9 as stated: for every IssueBody b with a present canonicalId and any list of
\* content strings as sections, parseIssueBody(printIssueBody(b)) equals b.
C9_RoundTripAnySections ==
    (codecPc = "done" /\ codecBody.metadata.canonicalId # Null)
    => codecParsed = codecBody

\* C9 as amended: for every IssueBody b with a present positive integer canonicalId
\* whose sections neither contain the separator nor end with "\r\n---",
\* parseIssueBody(printIssueBody(b)) equals b.
C9_RoundTrip ==
    (/\ codecPc = "done"
     /\ codecBody.metadata.canonicalId # Null
     /\ \A i \in 1..Len(codecBody.sections) : SeparatorFree(codecBody.sections[i]))
    => codecParsed = codecBody

\* Two sections, the second starting with "---\r\n", and canonical ID 10 survive the round trip.
C9_Witness ==
    /\ codecPc = "done"
    /\ codecBody = [sections |-> << <<"a">>, <<"D", "N">> >>, metadata |-> [canonicalId |-> 10]]
    /\ codecParsed = codecBody

\* C10: for every IssueBody b with default metadata, printMetadata returns null,
\* printIssueBody(b) is the content sections joined by the separator, and
\* parseIssueBody of it has the sections of b and default metadata.
C10_MetadataOmitted ==
    (codecPc = "done" /\ codecBody.metadata.canonicalId = Null)
    => /\ codecPrinted.metadata.isNull
       /\ codecPrinted.text = join(codecBody.sections, SEPARATOR)
       /\ codecParsed.sections = codecBody.sections
       /\ codecParsed.metadata = newMetadata

----------------------------------------------------------------------------
(* parseIssueBody on its own, on what the tracker may deliver as an issue's *)
(* body: null, the empty text, and texts that end in a list of li elements   *)
(* whose data-canonical-id values are digits, signs and other characters.    *)

AttrTokens == {"0", "1", "-", "x", HugeDigits}

LiElements(budget) ==
    {<<LI_PLAIN>>} \cup {<<LI_OPEN>> \o v \o <<LI_CLOSE>> : v \in SeqsUpTo(AttrTokens, budget)}

attrLen(li) == IF li[1] = LI_PLAIN THEN 0 ELSE Len(li) - 2

\* The lists of at most n li elements whose attribute values hold at most budget
\* tokens together.
RECURSIVE LiLists(_, _)
LiLists(n, budget) ==
    IF n = 0 THEN {<<>>}
    ELSE {<<>>} \cup UNION {{li \o rest : rest \in LiLists(n - 1, budget - attrLen(li))} :
                              li \in LiElements(budget)}

\* The list inside a details element (a metadata block) or on its own (content).
MarkupFragments ==
    LET lists == LiLists(MaxLis, MaxAttrLen)
    IN {<<"<details>", "<summary>Issue metadata</summary>", "<ul>">> \o l \o <<"</ul>", "</details>">> :
            l \in lists}
       \cup {<<"<ul>">> \o l \o <<"</ul>">> : l \in lists}

BodyTexts ==
    {<<>>} \cup {prefix \o html : prefix \in {<<>>, <<"a">> \o SEPARATOR}, html \in MarkupFragments}

InitParse ==
    /\ parseInput = None \/ \E text \in BodyTexts : parseInput = Some(text)
    /\ parseOutput = [sections |-> <<>>, metadata |-> newMetadata]
    /\ parsePc = "call"
    /\ SyncIdle /\ AllocIdle /\ GapIdle /\ CodecIdle

\* bodyText.split(SEPARATOR) at line 268 is a property access on bodyText: on
\* null it throws a TypeError.
splitThrows(bodyText) == bodyText.isNull

ParseIssueBodyReturns ==
    /\ parsePc = "call"
    /\ ~splitThrows(parseInput)
    /\ parseOutput' = parseIssueBody(parseInput.value)
    /\ parsePc' = "returned"
    /\ UNCHANGED <<parseInput, syncVars, allocVars, gapVars, codecVars>>

ParseIssueBodyThrows ==
    /\ parsePc = "call"
    /\ splitThrows(parseInput)
    /\ parsePc' = "threw"
    /\ UNCHANGED <<parseInput, parseOutput, syncVars, allocVars, gapVars, codecVars>>

NextParse == ParseIssueBodyReturns \/ ParseIssueBodyThrows

SpecParse == InitParse /\ [][NextParse]_vars

----------------------------------------------------------------------------
(* Claims about parseIssueBody (checked under SpecParse). *)

\* C18: for every input text, parseIssueBody returns without raising an IssueBody
\* whose canonicalId is absent or an integer >= 1; a canonical-id attribute that
\* is non-numeric, zero or negative yields absent.
C18_MetadataNormalised ==
    (parsePc \in {"returned", "threw"} /\ ~parseInput.isNull)
    => /\ parsePc = "returned"
       /\ LET id == parseOutput.metadata.canonicalId
          IN id = Null \/ (id >= 1 /\ id # Infinity)

\* C19: parseIssueBody applied to the empty string or to an absent (null) body
\* text returns one empty content section and default metadata and does not raise.
C19_EmptyOrAbsentBody ==
    (parsePc \in {"returned", "threw"} /\ (parseInput.isNull \/ parseInput.value = <<>>))
    => /\ parsePc = "returned"
       /\ parseOutput = [sections |-> << <<>> >>, metadata |-> newMetadata]

----------------------------------------------------------------------------
(* Array.prototype.sort without a comparator, index.ts line 126: the        *)
(* elements are ordered by their string conversions, code unit by code unit. *)

RECURSIVE stringLess(_, _)
stringLess(a, b) ==
    IF Len(b) = 0 THEN FALSE
    ELSE IF Len(a) = 0 THEN TRUE
    ELSE IF a[1] # b[1] THEN DigitValue(a[1]) < DigitValue(b[1])
    ELSE stringLess(Tail(a), Tail(b))

\* The default sort order of two numbers.
sortBefore(x, y) == stringLess(numberToString(x), numberToString(y))

RECURSIVE insertSorted(_, _)
insertSorted(sorted, x) ==
    IF Len(sorted) = 0 THEN <<x>>
    ELSE IF sortBefore(x, sorted[1]) THEN <<x>> \o sorted
    ELSE <<sorted[1]>> \o insertSorted(Tail(sorted), x)

RECURSIVE sort(_)
sort(array) ==
    IF Len(array) = 0 THEN <<>>
    ELSE insertSorted(sort(SubSeq(array, 1, Len(array) - 1)), array[Len(array)])

----------------------------------------------------------------------------
(* State.initialise after getIssues has returned, index.ts lines 117-151. *)

\* x || 0 for a number or null.
orZero(x) == IF x = Null \/ x = NaN THEN 0 ELSE x

RECURSIVE filterNonZero(_)
filterNonZero(array) ==
    IF Len(array) = 0 THEN <<>>
    ELSE IF array[1] # 0 THEN <<array[1]>> \o filterNonZero(Tail(array))
    ELSE filterNonZero(Tail(array))

\* contexts.map(canonicalId || 0).filter(m => m !== 0).sort()
collectKnownIds(ctxs) ==
    sort(filterNonZero([i \in 1..Len(ctxs) |-> orZero(ctxs[i].body.metadata.canonicalId)]))

\* Mutant of hasCanonicalId: no issue counts as numbered.
hasCanonicalId_never(context) == FALSE

\* if (context.issue.body.metadata.canonicalId): truthy when present and not 0.
hasCanonicalId(context) == orZero(context.body.metadata.canonicalId) # 0

\* Mutant of takeGap: the gap is taken from the front of the list.
takeGap_first(gapList) == gapList[1]

\* nextId = gaps[gaps.length - 1];
takeGap(gapList) == gapList[Len(gapList)]

\* gaps.pop();
popGap(gapList) == SubSeq(gapList, 1, Len(gapList) - 1)

\* let nextId = 0;
initialNextId(known) == 0

\* Lines 117-134: the empty check, knownIds, findGaps (which shifts knownIds in
\* place) and the initialisation of the loop.
ComputeGaps ==
    /\ opc = "allocate"
    /\ IF Len(contexts) = 0
       THEN /\ opc' = "done"
            /\ UNCHANGED <<knownIds, gaps, nextId, loopIdx>>
       ELSE LET known == collectKnownIds(contexts)
            IN /\ knownIds' = dropLeading(known)
               /\ gaps' = findGaps(known, Len(contexts))
               /\ nextId' = initialNextId(known)
               /\ loopIdx' = 1
               /\ opc' = "loop"
    /\ UNCHANGED <<contexts, assignLog, syncVars, gapVars, codecVars, parseVars>>

\* Lines 135-147: one iteration of the for..of loop.
AssignNext ==
    /\ opc = "loop"
    /\ loopIdx <= Len(contexts)
    /\ loopIdx' = loopIdx + 1
    /\ IF hasCanonicalId(contexts[loopIdx])
       THEN UNCHANGED <<contexts, gaps, nextId, assignLog>>
       ELSE LET fromGap == Len(gaps) # 0
                id == IF fromGap THEN takeGap(gaps) ELSE nextId + 1
            IN /\ nextId' = id
               /\ gaps' = IF fromGap THEN popGap(gaps) ELSE gaps
               /\ contexts' = [contexts EXCEPT ![loopIdx].body.metadata.canonicalId = id]
               /\ assignLog' = Append(assignLog,
                      [pos |-> loopIdx, id |-> id, fromGap |-> fromGap, gapsBefore |-> gaps])
    /\ UNCHANGED <<opc, knownIds, syncVars, gapVars, codecVars, parseVars>>

\* Lines 149-151: the loop is over.
LoopEnd ==
    /\ opc = "loop"
    /\ loopIdx > Len(contexts)
    /\ opc' = "done"
    /\ UNCHANGED <<contexts, knownIds, gaps, nextId, loopIdx, assignLog,
                   syncVars, gapVars, codecVars, parseVars>>

----------------------------------------------------------------------------
(* The allocator on its own: initialise from the point where getIssues has *)
(* returned, for every aggregated list within the bounds.  A canonical ID  *)
(* in such a list is null or positive, as parseMetadata leaves it.         *)

AllocIssue(i, id) ==
    [owner |-> "TokTok", repo |-> "c-toxcore", issueId |-> i,
     body |-> [sections |-> << <<"a">> >>, metadata |-> [canonicalId |-> id]]]

AllocContexts ==
    {[i \in 1..Len(ids) |-> AllocIssue(i, ids[i])] :
        ids \in SeqsUpTo({Null} \cup (1..MaxKnownId), MaxContexts)}

InitAlloc ==
    /\ opc = "allocate"
    /\ contexts \in AllocContexts
    /\ knownIds = <<>>
    /\ gaps = <<>>
    /\ nextId = 0
    /\ loopIdx = 0
    /\ assignLog = <<>>
    /\ SyncIdle /\ GapIdle /\ CodecIdle /\ ParseIdle

NextAlloc == ComputeGaps \/ AssignNext \/ LoopEnd

SpecAlloc == InitAlloc /\ [][NextAlloc]_vars

----------------------------------------------------------------------------
(* Claims about the assignment of initialise (checked under SpecAlloc). *)

NoDuplicates(s) == \A i, j \in 1..Len(s) : i # j => s[i] # s[j]

canonicalIds(ctxs) == [i \in 1..Len(ctxs) |-> ctxs[i].body.metadata.canonicalId]

\* C1: if no two issues of the aggregated list share a canonical ID before the
\* assignment loop, then after the loop no two issues hold the same canonical ID.
C1_UniqueAfterAllocation ==
    (opc = "done" /\ NoDuplicates(knownIds)) => NoDuplicates(canonicalIds(contexts))

\* C5: every ID taken from the counter (assigned once the gap list is exhausted)
\* is strictly greater than every canonical ID known before the assignment.
C5_CounterAboveKnown ==
    \A n \in 1..Len(assignLog) :
        ~assignLog[n].fromGap => \A k \in Range(knownIds) : assignLog[n].id > k

\* The gap list as findGaps returned it (the list before the first assignment).
gapsFound == IF Len(assignLog) = 0 THEN gaps ELSE assignLog[1].gapsBefore

\* The i-th largest element of the list g.
IsIthLargest(x, g, i) ==
    x \in Range(g) /\ Cardinality({y \in Range(g) : y > x}) = i - 1

\* C6: the i-th unnumbered issue in traversal order (i <= length of the gap list)
\* receives the i-th largest gap, and no issue receives a counter-based ID while
\* the gap list is non-empty.
C6_GapsFromTheEndFirst ==
    /\ \A n \in 1..Len(assignLog) :
          n <= Len(gapsFound) =>
              /\ assignLog[n].fromGap
              /\ IsIthLargest(assignLog[n].id, gapsFound, n)
    /\ \A n \in 1..Len(assignLog) : ~assignLog[n].fromGap => assignLog[n].gapsBefore = <<>>
    /\ \A n \in 1..(Len(assignLog) - 1) : assignLog[n].pos < assignLog[n + 1].pos

\* Known ID 3 and two unnumbered issues: the gaps are [1, 2]; the first unnumbered
\* issue receives 2 and the second receives 1.
C6_Witness ==
    /\ opc = "done"
    /\ knownIds = <<3>>
    /\ gapsFound = <<1, 2>>
    /\ Len(assignLog) = 2
    /\ assignLog[1].id = 2 /\ assignLog[1].fromGap
    /\ assignLog[2].id = 1 /\ assignLog[2].fromGap

\* C13: the knownIds array that initialise passes to findGaps is in ascending
\* numeric order (known IDs 2 and 10 are passed as [2, 10]), so that its last
\* element is the maximum known ID.
C13_KnownIdsAscending ==
    opc \in {"loop", "done"}
    => /\ IsAscending(knownIds)
       /\ \A k \in Range(knownIds) : k <= knownIds[Len(knownIds)]

----------------------------------------------------------------------------
(* The tracker, the store and the installations of the whole program. *)

RepoExperimental == [owner |-> "TokTok", name |-> "experimental"]

RepoOther == [owner |-> "TokTok", name |-> "c-toxcore"]

Repos == {RepoExperimental, RepoOther}

\* Body texts on the tracker: one without metadata, one carrying canonical ID 2.
PlainText == <<"a">>

NumberedText ==
    <<"a">> \o SEPARATOR \o DO_NOT_EDIT
    \o <<"<details>", "<summary>Issue metadata</summary>", "<ul>",
         LI_OPEN, "2", LI_CLOSE, "</ul>", "</details>">>

rawIssue(number, kind) ==
    [number |-> number,
     body |-> IF kind = "numbered" THEN NumberedText ELSE PlainText,
     pull_request |-> kind = "pull"]

\* What listForRepo may hold for one repository: nothing but a pull request
\* (no issue), a pull request and an issue, or two issues of which the second
\* carries a canonical ID.  An issue's number is its position.
RepoContents ==
    {<<"pull">>, <<"pull", "plain">>, <<"plain", "numbered">>}

TrackerStates ==
    {[r \in Repos |-> [n \in 1..Len(kinds[r]) |-> rawIssue(n, kinds[r][n])]] :
        kinds \in [Repos -> RepoContents]}

RECURSIVE SumLen(_)
SumLen(c) == IF Len(c) = 0 THEN 0 ELSE Len(c[1]) + SumLen(Tail(c))

\* Every listing of installations, each with at least one repository, that
\* holds at most MaxCalls repositories together.
InstallConfigs ==
    {c \in SeqsUpTo(SeqsUpTo(Repos, MaxCalls) \ {<<>>}, MaxCalls) : SumLen(c) <= MaxCalls}

sameRepo(doc, repository) == doc.owner = repository.owner /\ doc.repo = repository.name

RECURSIVE selectSeq(_, _)
selectSeq(docs, repository) ==
    IF Len(docs) = 0 THEN <<>>
    ELSE IF sameRepo(docs[1], repository) THEN <<docs[1]>> \o selectSeq(Tail(docs), repository)
    ELSE selectSeq(Tail(docs), repository)

RECURSIVE rejectSeq(_, _)
rejectSeq(docs, repository) ==
    IF Len(docs) = 0 THEN <<>>
    ELSE IF sameRepo(docs[1], repository) THEN rejectSeq(Tail(docs), repository)
    ELSE <<docs[1]>> \o rejectSeq(Tail(docs), repository)

\* collection.find({ owner, repo }).toArray()
find(docs, repository) == selectSeq(docs, repository)

\* Mutant of deleteMany: the filter names the owner only.
deleteMany_byOwner(docs, repository) ==
    SelectSeq(docs, LAMBDA doc : doc.owner # repository.owner)

\* collection.deleteMany({ owner, repo })
deleteMany(docs, repository) == rejectSeq(docs, repository)

sameKey(d, e) == d.owner = e.owner /\ d.repo = e.repo /\ d.issueId = e.issueId

hasDuplicateKeys(docs) ==
    \E i, j \in 1..Len(docs) : i # j /\ sameKey(docs[i], docs[j])

\* Mutant of createUniqueIndex: the index is not created.
createUniqueIndex_skipped(exists) == exists

\* collection.createIndexes([{ key: { owner: 1, repo: 1, issueId: 1 }, unique: true }])
createUniqueIndex(exists) == TRUE

\* collection.insertMany(issues): the documents are inserted in order; with the
\* unique index the first document whose key is taken stops the insert with an error.
RECURSIVE insertMany(_, _, _)
insertMany(docs, issues, unique) ==
    IF Len(issues) = 0 THEN [docs |-> docs, ok |-> TRUE]
    ELSE IF unique /\ \E i \in 1..Len(docs) : sameKey(docs[i], issues[1])
    THEN [docs |-> docs, ok |-> FALSE]
    ELSE insertMany(Append(docs, issues[1]), Tail(issues), unique)

\* getIssuesFromGithub: drop the pull requests, parse the bodies (lines 43-49).
RECURSIVE getIssuesFromGithub(_, _)
getIssuesFromGithub(raw, repository) ==
    IF Len(raw) = 0 THEN <<>>
    ELSE IF raw[1].pull_request THEN getIssuesFromGithub(Tail(raw), repository)
    ELSE <<[owner |-> repository.owner, repo |-> repository.name,
            issueId |-> raw[1].number, body |-> parseIssueBody(raw[1].body)]>>
         \o getIssuesFromGithub(Tail(raw), repository)

\* if (repo === "experimental")
forceInvalidate(repository) == repository.name = "experimental"

\* Mutant of noIssues: the empty result is not told apart.
noIssues_never(issues) == FALSE

\* if (issues.length === 0)
noIssues(issues) == Len(issues) = 0

\* Mutant of cacheHit: the test is inverted.
cacheHit_inverted(existing) == Len(existing) = 0

\* if (existing.length !== 0)
cacheHit(existing) == Len(existing) # 0

\* Mutant of flatten: the inner arrays are concatenated last to first.
RECURSIVE flatten_reversed(_)
flatten_reversed(array) ==
    IF Len(array) = 0 THEN <<>> ELSE flatten_reversed(Tail(array)) \o array[1]

RECURSIVE flatten(_)
flatten(array) ==
    IF Len(array) = 0 THEN <<>> ELSE array[1] \o flatten(Tail(array))

\* Mutant of promiseAll: fulfilled as soon as one of the promises is.
promiseAll_any(cs) == \E k \in 1..Len(cs) : cs[k].pc = "returned"

\* Promise.all(...): fulfilled when every one of the promises is fulfilled.
promiseAll(cs) == \A k \in 1..Len(cs) : cs[k].pc = "returned"

----------------------------------------------------------------------------
(* State.getIssues and State.getIssuesforRepo, index.ts lines 52-112.  A   *)
(* call advances by one action per awaited store or tracker operation.     *)

newCall(inst, repository) ==
    [inst |-> inst, repo |-> repository, pc |-> "pending",
     issues |-> <<>>, result |-> <<>>,
     deleted |-> FALSE, hit |-> FALSE, afterSync |-> FALSE,
     indexCalls |-> 0, trackerCalls |-> 0]

\* One call per repository of every installation, in listing order.
RECURSIVE pendingCalls(_, _)
pendingCalls(insts, i) ==
    IF i > Len(insts) THEN <<>>
    ELSE [n \in 1..Len(insts[i]) |-> newCall(i, insts[i][n])] \o pendingCalls(insts, i + 1)

Init ==
    /\ tracker \in TrackerStates
    /\ installs \in InstallConfigs
    /\ cache = <<>>
    /\ indexExists = FALSE
    /\ listed = {}
    /\ calls = <<>>
    /\ synced = {}
    /\ opc = "start"
    /\ contexts = <<>>
    /\ knownIds = <<>>
    /\ gaps = <<>>
    /\ nextId = 0
    /\ loopIdx = 0
    /\ assignLog = <<>>
    /\ GapIdle /\ CodecIdle /\ ParseIdle

\* Lines 96-100: app.auth(), listInstallations(); the map callbacks start.
ListInstallations ==
    /\ opc = "start"
    /\ opc' = "gather"
    /\ calls' = pendingCalls(installs, 1)
    /\ listed' = {}
    /\ UNCHANGED <<tracker, cache, indexExists, installs, synced,
                   contexts, knownIds, gaps, nextId, loopIdx, assignLog, gapVars, codecVars, parseVars>>

\* Lines 103-106: app.auth(installation.id), listRepos(); getIssuesforRepo is
\* called for every repository and runs to its first await (lines 57-67).
ListRepos(i) ==
    /\ opc \in {"gather", "rejected"}
    /\ i \in (1..Len(installs)) \ listed
    /\ listed' = listed \cup {i}
    /\ calls' = [k \in 1..Len(calls) |->
                    IF calls[k].inst = i
                    THEN [calls[k] EXCEPT
                            !.pc = IF forceInvalidate(calls[k].repo) THEN "deleteMany" ELSE "find",
                            !.afterSync = calls[k].repo \in synced]
                    ELSE calls[k]]
    /\ UNCHANGED <<tracker, cache, indexExists, installs, synced, allocVars, gapVars, codecVars, parseVars>>

\* Line 63: await collection.deleteMany({ owner, repo }).
DeleteMany(k) ==
    /\ k \in 1..Len(calls)
    /\ calls[k].pc = "deleteMany"
    /\ cache' = deleteMany(cache, calls[k].repo)
    /\ calls' = [calls EXCEPT ![k].pc = "find", ![k].deleted = TRUE]
    /\ UNCHANGED <<tracker, indexExists, installs, listed, synced, allocVars, gapVars, codecVars, parseVars>>

\* Lines 67-71: await collection.find(...).toArray(), and the cache-hit return.
Find(k) ==
    /\ k \in 1..Len(calls)
    /\ calls[k].pc = "find"
    /\ LET existing == find(cache, calls[k].repo)
       IN IF cacheHit(existing)
          THEN /\ calls' = [calls EXCEPT ![k].pc = "returned", ![k].hit = TRUE,
                                         ![k].result = existing]
          ELSE /\ calls' = [calls EXCEPT ![k].pc = "createIndexes"]
    /\ UNCHANGED <<tracker, cache, indexExists, installs, listed, synced,
                   allocVars, gapVars, codecVars, parseVars>>

\* Line 74: await collection.createIndexes(...); building a unique index
\* over documents that share a key fails.
CreateIndexes(k) ==
    /\ k \in 1..Len(calls)
    /\ calls[k].pc = "createIndexes"
    /\ IF hasDuplicateKeys(cache)
       THEN /\ calls' = [calls EXCEPT ![k].pc = "threw",
                                      ![k].indexCalls = calls[k].indexCalls + 1]
            /\ UNCHANGED indexExists
       ELSE /\ calls' = [calls EXCEPT ![k].pc = "getIssuesFromGithub",
                                      ![k].indexCalls = calls[k].indexCalls + 1]
            /\ indexExists' = createUniqueIndex(indexExists)
    /\ UNCHANGED <<tracker, cache, installs, listed, synced, allocVars, gapVars, codecVars, parseVars>>

\* Lines 77-84: await this.getIssuesFromGithub(...), and the empty return.
GetIssuesFromGithub(k) ==
    /\ k \in 1..Len(calls)
    /\ calls[k].pc = "getIssuesFromGithub"
    /\ LET issues == getIssuesFromGithub(tracker[calls[k].repo], calls[k].repo)
       IN IF noIssues(issues)
          THEN /\ calls' = [calls EXCEPT ![k].pc = "returned", ![k].result = <<>>,
                                         ![k].trackerCalls = calls[k].trackerCalls + 1]
               /\ synced' = synced \cup {calls[k].repo}
          ELSE /\ calls' = [calls EXCEPT ![k].pc = "insertMany", ![k].issues = issues,
                                         ![k].trackerCalls = calls[k].trackerCalls + 1]
               /\ UNCHANGED synced
    /\ UNCHANGED <<tracker, cache, indexExists, installs, listed, allocVars, gapVars, codecVars, parseVars>>

\* Line 40: the tracker call fails and the error propagates.
GetIssuesFromGithubFails(k) ==
    /\ k \in 1..Len(calls)
    /\ calls[k].pc = "getIssuesFromGithub"
    /\ calls' = [calls EXCEPT ![k].pc = "threw",
                              ![k].trackerCalls = calls[k].trackerCalls + 1]
    /\ UNCHANGED <<tracker, cache, indexExists, installs, listed, synced,
                   allocVars, gapVars, codecVars, parseVars>>

\* Lines 87-91: await collection.insertMany(issues), and the return.
InsertMany(k) ==
    /\ k \in 1..Len(calls)
    /\ calls[k].pc = "insertMany"
    /\ LET res == insertMany(cache, calls[k].issues, indexExists)
       IN /\ cache' = res.docs
          /\ IF res.ok
             THEN /\ calls' = [calls EXCEPT ![k].pc = "returned", ![k].result = calls[k].issues]
                  /\ synced' = synced \cup {calls[k].repo}
             ELSE /\ calls' = [calls EXCEPT ![k].pc = "threw"]
                  /\ UNCHANGED synced
    /\ UNCHANGED <<tracker, indexExists, installs, listed, allocVars, gapVars, codecVars, parseVars>>

\* Lines 99-115: both Promise.all have every result; flatten, flatten.
GetIssuesResolves ==
    /\ opc = "gather"
    /\ listed = 1..Len(installs)
    /\ promiseAll(calls)
    /\ contexts' = flatten([k \in 1..Len(calls) |-> calls[k].result])
    /\ opc' = "allocate"
    /\ UNCHANGED <<knownIds, gaps, nextId, loopIdx, assignLog, syncVars, gapVars, codecVars, parseVars>>

\* Promise.all rejects with the first error; initialise throws at line 115.
GetIssuesRejects ==
    /\ opc = "gather"
    /\ \E k \in 1..Len(calls) : calls[k].pc = "threw"
    /\ opc' = "rejected"
    /\ UNCHANGED <<contexts, knownIds, gaps, nextId, loopIdx, assignLog, syncVars, gapVars, codecVars, parseVars>>

\* Lines 289-296: the app starts again and initialise runs against the same store.
Restart ==
    /\ opc \in {"done", "rejected"}
    /\ opc' = "start"
    /\ calls' = <<>>
    /\ listed' = {}
    /\ contexts' = <<>>
    /\ knownIds' = <<>>
    /\ gaps' = <<>>
    /\ nextId' = 0
    /\ loopIdx' = 0
    /\ assignLog' = <<>>
    /\ UNCHANGED <<tracker, cache, indexExists, installs, synced, gapVars, codecVars, parseVars>>

Next ==
    \/ ListInstallations
    \/ \E i \in 1..MaxCalls : ListRepos(i)
    \/ \E k \in 1..MaxCalls : DeleteMany(k)
    \/ \E k \in 1..MaxCalls : Find(k)
    \/ \E k \in 1..MaxCalls : CreateIndexes(k)
    \/ \E k \in 1..MaxCalls : GetIssuesFromGithub(k)
    \/ \E k \in 1..MaxCalls : GetIssuesFromGithubFails(k)
    \/ \E k \in 1..MaxCalls : InsertMany(k)
    \/ GetIssuesResolves
    \/ GetIssuesRejects
    \/ ComputeGaps
    \/ AssignNext
    \/ LoopEnd
    \/ Restart

Spec == Init /\ [][Next]_vars

----------------------------------------------------------------------------
(* Claims about the synchronizer (checked under Spec). *)

\* N: the issues of a repository on the tracker, pull requests excluded.
trackerIssues(repository) == getIssuesFromGithub(tracker[repository], repository)

cached(repository) == find(cache, repository)

\* A first sync of its repository: it missed the cache and returned normally.
Populated(k) == calls[k].pc = "returned" /\ ~calls[k].hit

\* Whenever a sync of a repository other than the forced-invalidation one has
\* returned, the cache holds exactly the N issues of the tracker for it, and a
\* sync that populated it made exactly one index-creation call.
FirstSyncPopulates ==
    \A k \in 1..Len(calls) :
        (~forceInvalidate(calls[k].repo) /\ calls[k].pc = "returned")
        => /\ cached(calls[k].repo) = trackerIssues(calls[k].repo)
           /\ Populated(k) => (calls[k].indexCalls = 1 /\ calls[k].trackerCalls = 1)

\* A sync started after a first sync of its repository returned makes no tracker
\* call, does not fail, and returns the N cached entries.
SecondSyncHits(k) ==
    /\ calls[k].trackerCalls = 0
    /\ calls[k].indexCalls = 0
    /\ calls[k].pc \in {"find", "returned"}
    /\ calls[k].pc = "returned" => calls[k].result = trackerIssues(calls[k].repo)

\* C2 as stated: for every repository other than the forced-invalidation one with
\* N >= 0 issues, the first sync leaves exactly N cache entries with one
\* index-creation call, and a second sync makes no tracker call and returns the
\* same N cached entries.
C2_CacheOrPopulateAnyN ==
    /\ FirstSyncPopulates
    /\ \A k \in 1..Len(calls) :
          (~forceInvalidate(calls[k].repo) /\ calls[k].afterSync) => SecondSyncHits(k)

\* C2 as amended: the same, the second sync's part for N >= 1 only.
C2_CacheOrPopulate ==
    /\ FirstSyncPopulates
    /\ \A k \in 1..Len(calls) :
          (/\ ~forceInvalidate(calls[k].repo)
           /\ calls[k].afterSync
           /\ Len(trackerIssues(calls[k].repo)) >= 1) => SecondSyncHits(k)

\* A sync started after a first sync of a repository with two issues returned has
\* itself returned the two cached entries without a tracker call.
C2_Witness ==
    \E k \in 1..Len(calls) :
        /\ ~forceInvalidate(calls[k].repo)
        /\ calls[k].afterSync
        /\ calls[k].pc = "returned"
        /\ calls[k].hit
        /\ calls[k].trackerCalls = 0
        /\ Len(calls[k].result) = 2
        /\ calls[k].result = cached(calls[k].repo)

\* C7: every sync of the repository named "experimental", in any sequence or
\* interleaving, first deletes the cached entries of its (owner, repo) and then
\* fetches from the tracker; it never returns from the cache-hit branch.
C7_ForcedInvalidation ==
    \A k \in 1..Len(calls) :
        forceInvalidate(calls[k].repo)
        => /\ ~calls[k].hit
           /\ calls[k].pc \in {"find", "createIndexes", "getIssuesFromGithub",
                               "insertMany", "returned"} => calls[k].deleted
           /\ calls[k].pc = "returned" => calls[k].trackerCalls = 1

\* C8: the cache holds at most one document per (owner, repo, issueId), and a
\* sync issues its bulk insert only after its index creation has completed.
C8_CacheUnique ==
    /\ ~hasDuplicateKeys(cache)
    /\ \A k \in 1..Len(calls) :
          (calls[k].pc = "insertMany" \/ Populated(k)) => (calls[k].indexCalls = 1 /\ indexExists)

\* Two syncs of the same repository populated concurrently: one inserted its two
\* issues, the other's insert was refused by the unique index.
C8_Witness ==
    \E j, k \in 1..Len(calls) :
        /\ j # k
        /\ calls[j].repo = calls[k].repo
        /\ Populated(j) /\ Len(calls[j].result) = 2
        /\ calls[k].pc = "threw" /\ Len(calls[k].issues) = 2
        /\ Len(cached(calls[k].repo)) = 2

----------------------------------------------------------------------------
(* Claims about State.getIssues and State.initialise together (checked     *)
(* under Spec).                                                            *)

\* A getIssuesforRepo call that has been started and has neither returned nor thrown.
inFlight(call) == call.pc \notin {"returned", "threw"}

\* C12: the gap computation and the assignment loop start only after every
\* getIssuesforRepo call of every repository of every installation has completed;
\* no canonical ID is assigned while a repository sync is still in flight.
C12_BarrierBeforeAllocation ==
    (opc \in {"allocate", "loop"} \/ Len(assignLog) > 0)
    => /\ listed = 1..Len(installs)
       /\ \A k \in 1..Len(calls) : ~inFlight(calls[k])

\* The loop has assigned an ID after two syncs, both of which returned issues.
C12_Witness ==
    /\ opc = "loop"
    /\ Len(assignLog) >= 1
    /\ Len(calls) = 2
    /\ \A k \in 1..Len(calls) : calls[k].pc = "returned" /\ Len(calls[k].result) >= 1

\* No repository is listed twice, in one installation or in two.
PairwiseDistinctRepos ==
    \A i, j \in 1..Len(installs) : \A n \in 1..Len(installs[i]) : \A m \in 1..Len(installs[j]) :
        (i # j \/ n # m) => installs[i][n] # installs[j][m]

\* The issues of the tracker by installation listing order, then repository
\* listing order, then each repository's own issue order.
RECURSIVE listingOrder(_, _)
listingOrder(i, n) ==
    IF i > Len(installs) THEN <<>>
    ELSE IF n > Len(installs[i]) THEN listingOrder(i + 1, 1)
    ELSE trackerIssues(installs[i][n]) \o listingOrder(i, n + 1)

\* The list that lines 117-147 leave when they are handed the list ctxs.
RECURSIVE assignFrom(_, _, _, _)
assignFrom(ctxs, idx, gapList, next) ==
    IF idx > Len(ctxs) THEN ctxs
    ELSE IF hasCanonicalId(ctxs[idx]) THEN assignFrom(ctxs, idx + 1, gapList, next)
    ELSE LET id == IF Len(gapList) # 0 THEN takeGap(gapList) ELSE next + 1
         IN assignFrom([ctxs EXCEPT ![idx].body.metadata.canonicalId = id], idx + 1,
                       IF Len(gapList) # 0 THEN popGap(gapList) ELSE gapList, id)

assignAll(ctxs) ==
    IF Len(ctxs) = 0 THEN ctxs
    ELSE assignFrom(ctxs, 1, findGaps(collectKnownIds(ctxs), Len(ctxs)), 0)

\* C14: with pairwise distinct repositories, the list getIssues returns is ordered
\* by installation listing order, then repository listing order, then each
\* repository's own issue order, whatever the interleaving of the repository
\* syncs, and the IDs initialise has assigned at its end are those that this
\* one list determines.
C14_OrderIndependentOfCompletion ==
    PairwiseDistinctRepos
    => /\ opc = "allocate" => contexts = listingOrder(1, 1)
       /\ opc = "done" => contexts = assignAll(listingOrder(1, 1))

\* Two distinct repositories were populated, the second one listed inserted its
\* issues first, and the list starts with the issues of the first one listed.
C14_Witness ==
    /\ opc = "done"
    /\ PairwiseDistinctRepos
    /\ Len(calls) = 2
    /\ Populated(1) /\ Populated(2)
    /\ Len(calls[1].result) >= 1 /\ Len(calls[2].result) >= 1
    /\ cache[1].repo = calls[2].repo.name
    /\ contexts[1].repo = calls[1].repo.name
    /\ Len(assignLog) >= 1

\* The step is a step of the getIssuesforRepo call k and of no other call.
StepOfCall(k) ==
    /\ Len(calls') = Len(calls)
    /\ calls'[k] # calls[k]
    /\ \A j \in (1..Len(calls)) \ {k} : calls'[j] = calls[j]

\* C15: a step that changes the cache documents of a repository is a step of a
\* getIssuesforRepo call for that repository, whether the call goes on to return
\* or to fail: a call inserts and deletes documents of its own (owner, repo) only.
C15_RepositoryIsolation ==
    [][\A r \in Repos :
          cached(r)' # cached(r)
          => \E k \in 1..Len(calls) : calls[k].repo = r /\ StepOfCall(k)]_vars

\* A later sync of the forced-invalidation repository deleted its cached issues and
\* then failed at the tracker; the other repository's documents are all there.
C15_Witness ==
    \E j, k \in 1..Len(calls) :
        /\ calls[j].repo # calls[k].repo
        /\ calls[k].afterSync /\ calls[k].deleted /\ calls[k].pc = "threw"
        /\ Len(trackerIssues(calls[k].repo)) >= 1
        /\ cached(calls[k].repo) = <<>>
        /\ Len(cached(calls[j].repo)) >= 1
        /\ cached(calls[j].repo) = trackerIssues(calls[j].repo)

\* C16: when a getIssuesforRepo call has missed the cache and the tracker returns
\* zero issues (pull requests excluded), the call returns an empty list from
\* there, without an insert, and the cache contents stay as they are.
C16_EmptyRepositoryNoInsert ==
    [][\A k \in 1..Len(calls) :
          (/\ calls[k].pc = "getIssuesFromGithub"
           /\ Len(trackerIssues(calls[k].repo)) = 0
           /\ StepOfCall(k)
           /\ calls'[k].pc # "threw")
          => /\ calls'[k].pc = "returned"
             /\ calls'[k].result = <<>>
             /\ cache' = cache]_vars

\* A sync of a repository that holds nothing but a pull request has asked the
\* tracker and returned the empty list; the cache holds the other repository's
\* issues and nothing of this one.
C16_Witness ==
    \E j, k \in 1..Len(calls) :
        /\ Populated(k) /\ calls[k].trackerCalls = 1
        /\ Len(tracker[calls[k].repo]) >= 1
        /\ Len(trackerIssues(calls[k].repo)) = 0
        /\ calls[k].result = <<>>
        /\ cached(calls[k].repo) = <<>>
        /\ Len(cached(calls[j].repo)) >= 1
        /\ Len(cache) = Len(cached(calls[j].repo))

\* A step of initialise between the return of getIssues and the end of the loop
\* that keeps to its frame.
AllocationFrameStep ==
    /\ cache' = cache
    /\ tracker' = tracker
    /\ Len(contexts') = Len(contexts)
    /\ \A i \in 1..Len(contexts) :
          /\ contexts'[i].owner = contexts[i].owner
          /\ contexts'[i].repo = contexts[i].repo
          /\ contexts'[i].issueId = contexts[i].issueId
          /\ contexts'[i].body.sections = contexts[i].body.sections
          /\ (contexts[i].body.metadata.canonicalId >= 1 => contexts'[i] = contexts[i])

\* C17: from the moment getIssues has returned to the end of the loop, no step of
\* initialise changes the canonical ID of an issue that has one, or any issue's
\* owner, repo, issueId or sections, and none writes to the tracker or the cache.
C17_AllocationFrame == [][(opc \in {"allocate", "loop"}) => AllocationFrameStep]_vars

\* The loop is over: an issue that came with canonical ID 2 still has it, another
\* issue was given an ID, and its cache document is still without one.
C17_Witness ==
    /\ opc = "done"
    /\ \E i \in 1..Len(contexts) :
          /\ contexts[i].body.metadata.canonicalId = 2
          /\ \A n \in 1..Len(assignLog) : assignLog[n].pos # i
    /\ \E n \in 1..Len(assignLog) : \E d \in 1..Len(cache) :
          /\ sameKey(cache[d], contexts[assignLog[n].pos])
          /\ cache[d].body.metadata.canonicalId = Null
          /\ contexts[assignLog[n].pos].body.metadata.canonicalId = assignLog[n].id

====
